---------------------------- MODULE Spec2Model ----------------------------
(***************************************************************************)
(* Model of the BI reconciliation engine                                   *)
(* (src/BI系統整合資料匯入工具.py) and of the procurement web service         *)
(* (src/ProcureTrack/procure.py, src/ProcureTrack/app.py).                 *)
(*                                                                         *)
(* Part 1: the procurement store procure_items, the incremental import     *)
(*         convert_procuretrack_data (the second, live definition) and     *)
(*         the operator's api_update.                                      *)
(* Part 2: the dedup step of the sales, repair and custody conversions.    *)
(***************************************************************************)
EXTENDS Integers, Sequences, FiniteSets, TLC

VARIABLES
    tableExists,     \* procure_items exists in procure.db
    cols,            \* its column names
    uniq,            \* its UNIQUE constraint: "po" (app.py) or "pair"
    store,           \* its rows in id order; store[i].id = i
    pc,              \* importer: "idle", "rows" (in the row loop), "done"
    frame,           \* the DataFrame read from the workbook
    idx,             \* number of frame rows already processed
    inserted_count,
    updated_count,
    skipped_count,
    errors_count,
    writeLock,       \* the importer's connection holds uncommitted writes
    report,          \* what the import call that just ended returned / logged
    mode,            \* workbook: "free" (a new export for every run), or
                     \* "first" / "again" / "over" (one export imported twice)
    ops,             \* successful operator updates so far
    outcomes,        \* history: outcome of each processed row of this run
    runStart,        \* history: store when the row loop began
    prevFrame,       \* history: frame of the first of the two runs
    prevEnd,         \* history: store when the first of the two runs committed
    opSince,         \* history: an operator wrote since that commit
    dd,              \* the sales / repair / custody conversion call under
                     \* way: its concatenated input and the table it stored
    ld,              \* one subsystem's store and the conversion loading it
    orch,            \* the orchestrator run: calls made, connections, report
    call             \* the helper call under way: its input and its result

pvars == <<tableExists, cols, uniq, store, pc, frame, idx, inserted_count,
           updated_count, skipped_count, errors_count, writeLock, report,
           mode, ops, outcomes, runStart, prevFrame, prevEnd, opSince>>

vars == <<pvars, dd, ld, orch, call>>

-----------------------------------------------------------------------------
(* Bounds of the model. *)

MaxRows == 2

MaxOps == 1

MaxDocRows == 3

MaxFileRows == 2

MaxChunk == 3

MaxFaults == 2

MaxCol == 3

MaxSrcRows == 2

-----------------------------------------------------------------------------
(* Values.  Every cell and every stored value is a text; numbers are their *)
(* decimal text.  NaN is the blank spreadsheet cell as pandas reads it,    *)
(* NULL the SQL null.                                                      *)

NaN == "<NaN>"

NULL == "<NULL>"

KeyFields == {"po_number", "item_serial_number"}

AuthoritativeFields ==
    {"product_code", "product_name", "quantity", "warehouse_qty",
     "delivery_date", "warehouse", "status"}

OperatorFields ==
    {"dispatch_date", "arrival_date", "ship_info", "goods_status", "remarks"}

AllCols == {"id"} \cup KeyFields \cup AuthoritativeFields \cup OperatorFields

\* CREATE TABLE of the older stand-alone service.
OldCols ==
    {"id", "po_number", "product_name", "quantity", "delivery_date",
     "arrival_date", "ship_info", "status"}

\* CREATE TABLE of the importer and of the blueprint's ensure_db.
CreateCols ==
    {"id", "po_number", "item_serial_number", "product_code", "product_name",
     "quantity", "warehouse_qty", "delivery_date", "dispatch_date",
     "warehouse", "arrival_date", "ship_info", "status", "goods_status"}

\* The columns the importer's PRAGMA/ALTER block adds when missing.
ImporterAlterCols ==
    {"item_serial_number", "goods_status", "product_code", "warehouse_qty",
     "warehouse", "dispatch_date"}

\* The columns the blueprint's ensure_db adds when missing.
WebAlterCols ==
    {"product_code", "warehouse_qty", "warehouse", "dispatch_date",
     "item_serial_number", "goods_status", "remarks"}

\* The columns named by the importer's INSERT statement.
InsertCols ==
    {"po_number", "item_serial_number", "product_code", "product_name",
     "quantity", "warehouse_qty", "delivery_date", "warehouse", "status",
     "dispatch_date", "arrival_date", "ship_info", "goods_status"}

\* The columns the INSERT binds to the empty text.
InsertEmptyCols == {"dispatch_date", "arrival_date", "ship_info", "goods_status"}

\* The columns named by the importer's UPDATE statement.
UpdateCols ==
    {"product_code", "product_name", "quantity", "warehouse_qty",
     "delivery_date", "warehouse", "status"}

\* 生產中, 空運運送中, 海運運送中, 已抵港, 已報關, 貨運中, 延誤, 結案
STATUS_OPTIONS ==
    {"producing", "by air", "by sea", "at port", "cleared", "trucking",
     "delayed", "closed"}

\* 國貿部暨商品部, 總經理室
ALLOWED_DEPARTMENTS == {"trade", "gm_office"}

allowed_fields ==
    {"arrival_date", "dispatch_date", "ship_info", "goods_status", "remarks"}

-----------------------------------------------------------------------------
(* The import frame.  A row has one cell per workbook column the importer  *)
(* reads: po = 單據編號, serial = 序號, code = 產品代碼, name = 產品名稱,        *)
(* qty = 交易數量, wqty = 倉庫確認數量, wh = 倉庫, delivery = 交貨日期,         *)
(* status = 狀態.                                                           *)

Row(po, serial, code, name, qty, wqty, wh, delivery, status) ==
    [po |-> po, serial |-> serial, code |-> code, name |-> name, qty |-> qty,
     wqty |-> wqty, wh |-> wh, delivery |-> delivery, status |-> status]

Huge == "100000000000000000000"

ImportRows ==
    { Row("PO1", "1", "A100", "Widget", "10", "0", "WH1", "2024/01/05(Fri)", "producing"),
      Row(" PO1 ", "1", NaN, "Widget", "12", "abc", NaN, "TBD", "cleared"),
      Row("PO1", "1", "A100", "Widget", "1e20", "0", "WH1", NaN, "producing"),
      Row("PO2", NaN, "B200", "Bolt", "2.7", NaN, "WH2", "2024-02-01 00:00:00", "producing"),
      Row("  ", "1", "D400", "Drum", "7", "0", "WH1", NaN, "producing") }

RECURSIVE SeqsUpTo(_, _)
SeqsUpTo(S, n) ==
    IF n = 0 THEN {<<>>}
    ELSE LET shorter == SeqsUpTo(S, n - 1)
         IN  shorter \cup {Append(q, x) : q \in {t \in shorter : Len(t) = n - 1}, x \in S}

Frames == SeqsUpTo(ImportRows, MaxRows)

\* str.strip() on the texts of the model.
Strip(s) ==
    CASE s = "  " -> ""
      [] s = " PO1 " -> "PO1"
      [] s = " Bob " -> "Bob"
      [] OTHER -> s

\* str(cell or "").strip(): a blank cell is the float nan, which is truthy,
\* so it becomes the text "nan"; None, "" and 0 are falsy and become "".
StrCell(c) ==
    IF c = NaN THEN "nan"
    ELSE IF c \in {"", "0"} THEN ""
    ELSE Strip(c)

\* int(raw) if pd.notna(raw) else 0, with ValueError/TypeError giving 0.
IntCell(c) ==
    CASE c = NaN -> "0"
      [] c = "abc" -> "0"
      [] c = "2.7" -> "2"
      [] c = "1e20" -> Huge
      [] OTHER -> c

\* _normalize_delivery: blank -> "", parentheses removed, a parseable date
\* -> its ISO calendar date, anything else -> the stripped text.
NormalizeDelivery(c) ==
    CASE c = NaN -> ""
      [] Strip(c) = "" -> ""
      [] c = "2024/01/05(Fri)" -> "2024-01-05"
      [] c = "2024-02-01 00:00:00" -> "2024-02-01"
      [] OTHER -> Strip(c)

\* The values the importer binds for a row (lines 1805-1827).
RowValues(row) ==
    [po_number |-> StrCell(row.po),
     item_serial_number |-> StrCell(row.serial),
     product_code |-> StrCell(row.code),
     product_name |-> StrCell(row.name),
     quantity |-> IntCell(row.qty),
     warehouse_qty |-> IntCell(row.wqty),
     delivery_date |-> NormalizeDelivery(row.delivery),
     warehouse |-> StrCell(row.wh),
     status |-> StrCell(row.status)]

\* sqlite3 raises OverflowError when a bound int does not fit 64 bits.
BindOverflow(v) == v.quantity = Huge \/ v.warehouse_qty = Huge

\* SQL equality: a NULL equals nothing, not even another NULL.
SqlEq(a, b) == a # NULL /\ b # NULL /\ a = b

\* Variant: the SELECT does not see what the run has not committed yet.
SelectIds_NeverFinds(st, po, serial) == {}

\* SELECT id ... WHERE po_number = ? AND item_serial_number = ?
SelectIds(st, po, serial) ==
    {i \in 1..Len(st) :
        SqlEq(st[i].po_number, po) /\ SqlEq(st[i].item_serial_number, serial)}

MinOf(S) == CHOOSE x \in S : \A y \in S : x <= y

\* Variant: the update is written like the insert and rebinds the operator
\* columns to the empty text.
UpdateRecord_ClearsOperator(rec, v) ==
    [c \in AllCols |->
        IF c \in UpdateCols THEN v[c]
        ELSE IF c \in InsertEmptyCols \cup {"remarks"} THEN ""
        ELSE rec[c]]

\* Variant: the importer writes the whole record back from the copy it
\* read when the run began, with the row's authoritative values.
UpdateRecord_WritesBackSnapshot(rec, v) ==
    [c \in AllCols |->
        IF c \in UpdateCols THEN v[c]
        ELSE IF rec.id <= Len(runStart.st) THEN runStart.st[rec.id][c]
        ELSE rec[c]]

\* Variant: status is left out of the SET list.
UpdateRecord_KeepsStatus(rec, v) ==
    [c \in AllCols |-> IF c \in UpdateCols \ {"status"} THEN v[c] ELSE rec[c]]

\* UPDATE procure_items SET <7 authoritative fields> WHERE id = ?
UpdateRecord(rec, v) ==
    [c \in AllCols |-> IF c \in UpdateCols THEN v[c] ELSE rec[c]]

\* Variant: the insert leaves item_serial_number out, as the older table
\* had no such column.
InsertRecord_NoSerial(st, v) ==
    [c \in AllCols |->
        IF c = "id" THEN Len(st) + 1
        ELSE IF c \in InsertEmptyCols THEN ""
        ELSE IF c \in InsertCols \ {"item_serial_number"} THEN v[c]
        ELSE NULL]

\* Variant: the insert leaves both key columns out.
InsertRecord_NoKey(st, v) ==
    [c \in AllCols |->
        IF c = "id" THEN Len(st) + 1
        ELSE IF c \in InsertEmptyCols THEN ""
        ELSE IF c \in InsertCols \ KeyFields THEN v[c]
        ELSE NULL]

\* INSERT INTO procure_items (<InsertCols>) VALUES (...): columns not named
\* get NULL, id is the next AUTOINCREMENT value.
InsertRecord(st, v) ==
    [c \in AllCols |->
        IF c = "id" THEN Len(st) + 1
        ELSE IF c \in InsertEmptyCols THEN ""
        ELSE IF c \in InsertCols THEN v[c]
        ELSE NULL]

\* The table's UNIQUE constraint rejects the new record: po_number UNIQUE
\* in the older table, UNIQUE(po_number, item_serial_number) otherwise.
UniqueViolation(st, u, rec) ==
    \E i \in 1..Len(st) :
        /\ SqlEq(st[i].po_number, rec.po_number)
        /\ u = "pair" => SqlEq(st[i].item_serial_number, rec.item_serial_number)

\* One iteration of the row loop (lines 1803-1876) on table contents st
\* with columns cs and constraint u: the outcome, the new contents and
\* whether the connection now holds uncommitted work.
ProcessOne(st, cs, u, row) ==
    LET v == RowValues(row)
        ids == SelectIds(st, v.po_number, v.item_serial_number)
    IN  IF v.po_number = "" \/ v.item_serial_number = ""
        THEN [kind |-> "skipped", st |-> st, wrote |-> FALSE]
        ELSE IF ~(KeyFields \subseteq cs)
        THEN [kind |-> "errored", st |-> st, wrote |-> FALSE]
        ELSE IF ids # {}
        THEN IF ~(UpdateCols \subseteq cs) \/ BindOverflow(v)
             THEN [kind |-> "errored", st |-> st, wrote |-> FALSE]
             ELSE [kind |-> "updated",
                   st |-> [st EXCEPT ![MinOf(ids)] = UpdateRecord(@, v)],
                   wrote |-> TRUE]
        ELSE IF ~(InsertCols \subseteq cs) \/ BindOverflow(v)
             THEN [kind |-> "errored", st |-> st, wrote |-> FALSE]
             ELSE IF UniqueViolation(st, u, InsertRecord(st, v))
             THEN [kind |-> "errored", st |-> st, wrote |-> TRUE]
             ELSE [kind |-> "inserted",
                   st |-> Append(st, InsertRecord(st, v)),
                   wrote |-> TRUE]

\* The whole row loop on a frame, as a function of the table contents.
RECURSIVE Replay(_, _, _, _)
Replay(st, cs, u, rows) ==
    IF rows = <<>> THEN st
    ELSE Replay(ProcessOne(st, cs, u, Head(rows)).st, cs, u, Tail(rows))

-----------------------------------------------------------------------------
(* Schema steps. *)

\* The importer's CREATE TABLE IF NOT EXISTS followed by its ALTER block
\* (lines 1750-1784): the columns afterwards.
ImporterEnsureCols(exists, cs) ==
    IF exists THEN cs \cup ImporterAlterCols ELSE CreateCols

\* ensure_db of the blueprint (procure.py 51-97): the columns afterwards.
WebEnsureCols(exists, cs) ==
    IF exists THEN cs \cup WebAlterCols ELSE CreateCols \cup WebAlterCols

\* A table created by either CREATE TABLE carries UNIQUE(po, serial); an
\* existing table keeps the constraint it was created with.
EnsureUniq(exists, u) == IF exists THEN u ELSE "pair"

\* A row of the older installation's table: po_number UNIQUE, no serial.
OldRecord(i, po, arrival) ==
    [c \in AllCols |->
        CASE c = "id" -> i
          [] c = "po_number" -> po
          [] c = "product_name" -> "Widget"
          [] c = "quantity" -> "5"
          [] c = "delivery_date" -> "2023-12-20"
          [] c = "arrival_date" -> arrival
          [] c = "ship_info" -> ""
          [] c = "status" -> "producing"
          [] OTHER -> NULL]

NoReport == [ok |-> FALSE, inserted |-> 0, updated |-> 0, skipped |-> 0, errors |-> 0]

NoRun == [st |-> <<>>, ops |-> 0]

NoLoad == [sub |-> "none"]

NoOrch == [mode |-> "none"]

NoCall == [fn |-> "none"]

NoConversion ==
    [sub |-> "none", hasName |-> FALSE, hasCust |-> FALSE, rows |-> <<>>,
     kept |-> <<>>, table |-> <<>>]

\* The store before the first import: no table yet, or the older
\* installation's table with one row.
InitStore(m) ==
    /\ tableExists \in BOOLEAN
    /\ cols = IF tableExists THEN OldCols ELSE {}
    /\ uniq = IF tableExists THEN "po" ELSE "pair"
    /\ store = IF tableExists THEN <<OldRecord(1, "PO1", "2023-12-28")>> ELSE <<>>
    /\ pc = "idle"
    /\ frame = <<>>
    /\ idx = 0
    /\ inserted_count = 0
    /\ updated_count = 0
    /\ skipped_count = 0
    /\ errors_count = 0
    /\ writeLock = FALSE
    /\ report = NoReport
    /\ mode = m
    /\ ops = 0
    /\ outcomes = <<>>
    /\ runStart = NoRun
    /\ prevFrame = <<>>
    /\ prevEnd = <<>>
    /\ opSince = FALSE
    /\ dd = NoConversion

InitProcure == InitStore("free") /\ ld = NoLoad /\ orch = NoOrch /\ call = NoCall

InitRerun == InitStore("first") /\ ld = NoLoad /\ orch = NoOrch /\ call = NoCall

-----------------------------------------------------------------------------
(* convert_procuretrack_data (lines 1727-1889). *)

\* The workbook is missing or has no 序號 column: return False before the
\* store is opened (lines 1732-1740).
ImportAbort ==
    /\ pc = "idle"
    /\ mode # "over"
    /\ pc' = "done"
    /\ report' = NoReport
    /\ UNCHANGED <<tableExists, cols, uniq, store, frame, idx, inserted_count,
                   updated_count, skipped_count, errors_count, writeLock,
                   mode, ops, outcomes, runStart, prevFrame, prevEnd, opSince, dd, ld, orch, call>>

\* Variant: the table is dropped and rebuilt on every run, as the batch
\* loader does for the other subsystems.
ImportStart_Replace ==
    /\ pc = "idle"
    /\ mode # "over"
    /\ \E f \in (IF mode = "again" THEN {prevFrame} ELSE Frames) : frame' = f
    /\ tableExists' = TRUE
    /\ cols' = CreateCols
    /\ uniq' = "pair"
    /\ pc' = "rows"
    /\ idx' = 0
    /\ inserted_count' = 0
    /\ updated_count' = 0
    /\ skipped_count' = 0
    /\ errors_count' = 0
    /\ outcomes' = <<>>
    /\ runStart' = [st |-> <<>>, ops |-> ops]
    /\ store' = <<>>
    /\ UNCHANGED <<writeLock, report, mode, ops, prevFrame, prevEnd, opSince, dd, ld, orch, call>>

\* Read the workbook, open the store, create or evolve the table, commit,
\* zero the counters (lines 1737-1789).
ImportStart ==
    /\ pc = "idle"
    /\ mode # "over"
    /\ \E f \in (IF mode = "again" THEN {prevFrame} ELSE Frames) : frame' = f
    /\ tableExists' = TRUE
    /\ cols' = ImporterEnsureCols(tableExists, cols)
    /\ uniq' = EnsureUniq(tableExists, uniq)
    /\ pc' = "rows"
    /\ idx' = 0
    /\ inserted_count' = 0
    /\ updated_count' = 0
    /\ skipped_count' = 0
    /\ errors_count' = 0
    /\ outcomes' = <<>>
    /\ runStart' = [st |-> store, ops |-> ops]
    /\ store' = store
    /\ UNCHANGED <<writeLock, report, mode, ops, prevFrame, prevEnd, opSince, dd, ld, orch, call>>

\* Variant: no per-row try/except; a row that raises reaches the outer
\* handler, which returns False without committing.
ImportRow_NoRowBoundary ==
    /\ pc = "rows"
    /\ idx < Len(frame)
    /\ LET r == ProcessOne(store, cols, uniq, frame[idx + 1])
       IN  /\ store' = IF r.kind = "errored" THEN runStart.st ELSE r.st
           /\ pc' = IF r.kind = "errored" THEN "done" ELSE pc
           /\ writeLock' = (r.kind # "errored" /\ (writeLock \/ r.wrote))
           /\ inserted_count' = inserted_count + (IF r.kind = "inserted" THEN 1 ELSE 0)
           /\ updated_count' = updated_count + (IF r.kind = "updated" THEN 1 ELSE 0)
           /\ skipped_count' = skipped_count + (IF r.kind = "skipped" THEN 1 ELSE 0)
           /\ errors_count' = errors_count + (IF r.kind = "errored" THEN 1 ELSE 0)
           /\ outcomes' = Append(outcomes, r.kind)
    /\ idx' = idx + 1
    /\ UNCHANGED <<tableExists, cols, uniq, frame, report, mode, ops, runStart,
                   prevFrame, prevEnd, opSince, dd, ld, orch, call>>

\* Variant: a skipped row leaves the loop body without being counted.
ImportRow_SkipNotCounted ==
    /\ pc = "rows"
    /\ idx < Len(frame)
    /\ LET r == ProcessOne(store, cols, uniq, frame[idx + 1])
       IN  /\ store' = r.st
           /\ writeLock' = (writeLock \/ r.wrote)
           /\ inserted_count' = inserted_count + (IF r.kind = "inserted" THEN 1 ELSE 0)
           /\ updated_count' = updated_count + (IF r.kind = "updated" THEN 1 ELSE 0)
           /\ skipped_count' = skipped_count
           /\ errors_count' = errors_count + (IF r.kind = "errored" THEN 1 ELSE 0)
           /\ outcomes' = Append(outcomes, r.kind)
    /\ idx' = idx + 1
    /\ UNCHANGED <<tableExists, cols, uniq, pc, frame, report, mode, ops,
                   runStart, prevFrame, prevEnd, opSince, dd, ld, orch, call>>

\* One iteration of `for index, row in df.iterrows()` (lines 1803-1876).
ImportRow ==
    /\ pc = "rows"
    /\ idx < Len(frame)
    /\ LET r == ProcessOne(store, cols, uniq, frame[idx + 1])
       IN  /\ store' = r.st
           /\ writeLock' = (writeLock \/ r.wrote)
           /\ inserted_count' = inserted_count + (IF r.kind = "inserted" THEN 1 ELSE 0)
           /\ updated_count' = updated_count + (IF r.kind = "updated" THEN 1 ELSE 0)
           /\ skipped_count' = skipped_count + (IF r.kind = "skipped" THEN 1 ELSE 0)
           /\ errors_count' = errors_count + (IF r.kind = "errored" THEN 1 ELSE 0)
           /\ outcomes' = Append(outcomes, r.kind)
    /\ idx' = idx + 1
    /\ UNCHANGED <<tableExists, cols, uniq, pc, frame, report, mode, ops,
                   runStart, prevFrame, prevEnd, opSince, dd, ld, orch, call>>

\* conn.commit(); conn.close(); log the four counters; return True
\* (lines 1878-1885).
ImportFinish ==
    /\ pc = "rows"
    /\ idx = Len(frame)
    /\ pc' = "done"
    /\ writeLock' = FALSE
    /\ report' = [ok |-> TRUE, inserted |-> inserted_count,
                  updated |-> updated_count, skipped |-> skipped_count,
                  errors |-> errors_count]
    /\ mode' = CASE mode = "first" -> "again"
                 [] mode = "again" -> "over"
                 [] OTHER -> mode
    /\ prevFrame' = IF mode = "first" THEN frame ELSE prevFrame
    /\ prevEnd' = IF mode = "first" THEN store ELSE prevEnd
    /\ opSince' = IF mode = "first" THEN FALSE ELSE opSince
    /\ UNCHANGED <<tableExists, cols, uniq, store, frame, idx, inserted_count,
                   updated_count, skipped_count, errors_count, ops, outcomes,
                   runStart, dd, ld, orch, call>>

\* The call has returned: its locals and its log line are gone.
ImportReturn ==
    /\ pc = "done"
    /\ pc' = "idle"
    /\ frame' = <<>>
    /\ idx' = 0
    /\ inserted_count' = 0
    /\ updated_count' = 0
    /\ skipped_count' = 0
    /\ errors_count' = 0
    /\ report' = NoReport
    /\ outcomes' = <<>>
    /\ runStart' = NoRun
    /\ UNCHANGED <<tableExists, cols, uniq, store, writeLock, mode, ops,
                   prevFrame, prevEnd, opSince, dd, ld, orch, call>>

-----------------------------------------------------------------------------
(* api_update of the procurement blueprint (procure.py 260-302). *)

\* The requests the operators send: one accepted write per operator field,
\* and one request for each way of being turned away.
Requests ==
    { [dept |-> "trade", field |-> "dispatch_date", value |-> "2024-03-01"],
      [dept |-> "trade", field |-> "arrival_date", value |-> "2024-03-09"],
      [dept |-> "gm_office", field |-> "ship_info", value |-> "hold at port"],
      [dept |-> "trade", field |-> "goods_status", value |-> "cleared"],
      [dept |-> "trade", field |-> "remarks", value |-> "call vendor"],
      [dept |-> "sales", field |-> "remarks", value |-> "call vendor"],
      [dept |-> "trade", field |-> "status", value |-> "cleared"],
      [dept |-> "trade", field |-> "goods_status", value |-> "lost"],
      [dept |-> "trade", field |-> "remarks", value |-> "<301 chars>"] }

TextLen(v) == IF v = "<301 chars>" THEN 301 ELSE 11

\* The request passes the checks of lines 264-285.
UpdateAccepted(dept, field, value) ==
    /\ dept \in ALLOWED_DEPARTMENTS
    /\ field \in allowed_fields
    /\ ~(field = "goods_status" /\ value \notin STATUS_OPTIONS)
    /\ ~(field = "remarks" /\ TextLen(value) > 300)

\* UPDATE procure_items SET <field> = ? WHERE id = ?
SetField(st, id, field, value) ==
    [st EXCEPT ![id] = [@ EXCEPT ![field] = value]]

\* A request that is rejected (403, 400) before the store is opened.
OperatorRejected ==
    /\ \E q \in Requests : ~UpdateAccepted(q.dept, q.field, q.value)
    /\ UNCHANGED vars

\* An accepted request: get_conn() runs ensure_db, then the row is looked
\* up by id (404 when absent) and the one field is written and committed.
\* While the importer holds uncommitted writes the store is locked and the
\* request cannot succeed.
OperatorUpdate ==
    /\ ~writeLock
    /\ ops < MaxOps
    /\ \E q \in Requests, id \in 1..(Len(store) + 1) :
          /\ UpdateAccepted(q.dept, q.field, q.value)
          /\ tableExists' = TRUE
          /\ cols' = WebEnsureCols(tableExists, cols)
          /\ uniq' = EnsureUniq(tableExists, uniq)
          /\ IF id \in 1..Len(store)
             THEN /\ store' = SetField(store, id, q.field, q.value)
                  /\ ops' = ops + 1
                  /\ opSince' = (opSince \/ mode = "again")
             ELSE UNCHANGED <<store, ops, opSince>>
    /\ UNCHANGED <<pc, frame, idx, inserted_count, updated_count,
                   skipped_count, errors_count, writeLock, report, mode,
                   outcomes, runStart, prevFrame, prevEnd, dd, ld, orch, call>>

NextProcure ==
    \/ ImportAbort
    \/ ImportStart
    \/ ImportRow
    \/ ImportFinish
    \/ ImportReturn
    \/ OperatorRejected
    \/ OperatorUpdate

\* Any number of imports, each of a fresh export, with operator updates.
SpecProcure == InitProcure /\ [][NextProcure]_vars

\* One export imported twice, with operator updates.
SpecRerun == InitRerun /\ [][NextProcure]_vars

-----------------------------------------------------------------------------
(* Properties of the procurement import. *)

\* A step taken by the importer (every importer step moves idx or pc; no
\* operator step does).
ImportStep == idx' # idx \/ pc' # pc

OperatorValues(rec) == [f \in OperatorFields |-> rec[f]]

KeyOf(rec) == <<rec.po_number, rec.item_serial_number>>

Count(seq, k) == Cardinality({i \in 1..Len(seq) : seq[i] = k})

\* The rows of fr that did not raise (rows not yet processed included).
NonErrored(fr, out) ==
    LET keep == {i \in 1..Len(fr) : i > Len(out) \/ out[i] # "errored"}
        Pick[n \in 0..Len(fr)] ==
            IF n = 0 THEN <<>>
            ELSE IF n \in keep THEN Append(Pick[n - 1], fr[n]) ELSE Pick[n - 1]
    IN  Pick[Len(fr)]

\* C1: no importer step changes dispatch_date, arrival_date, ship_info,
\* goods_status or remarks of a record that is already stored.
C1_OperatorFieldsPreserved ==
    [][ImportStep =>
         /\ Len(store') >= Len(store)
         /\ \A i \in 1..Len(store) :
               OperatorValues(store'[i]) = OperatorValues(store[i])]_vars

\* C1 witness: an operator wrote remarks between two imports, the second
\* import updated that record to qty 12 / cleared, the remark is still there.
C1_Witness ==
    /\ pc = "done" /\ report.ok /\ report.updated >= 1
    /\ runStart.ops = 1
    /\ \E i \in 1..Len(runStart.st) :
          /\ runStart.st[i].quantity = "10"
          /\ runStart.st[i].remarks = "call vendor"
          /\ store[i].remarks = "call vendor"
          /\ store[i].quantity = "12"
          /\ store[i].status = "cleared"

C3_InsertedHasEmptyOperatorFields ==
    (pc = "rows" /\ idx > 0 /\ outcomes[idx] = "inserted") =>
        LET rec == store[Len(store)]
            v == RowValues(frame[idx])
        IN  /\ \A c \in KeyFields \cup AuthoritativeFields : rec[c] = v[c]
            /\ \A f \in OperatorFields : rec[f] = ""

\* C4: no two stored records have the same (po_number, item_serial_number).
C4_KeyUnique ==
    \A i, j \in 1..Len(store) : KeyOf(store[i]) = KeyOf(store[j]) => i = j

\* C4 witness: the older installation's table, evolved by the importer and
\* holding a second record beside the old one.
C4_Witness ==
    /\ uniq = "po" /\ "item_serial_number" \in cols
    /\ Len(store) >= 2 /\ pc = "done" /\ report.ok

\* C5: when the row loop ends on the same frame as the previous run's and
\* no operator wrote in between, the table has as many records as after the
\* previous run, the same operator values, and nothing was inserted.
C5_SecondRunIdempotent ==
    (pc = "rows" /\ idx = Len(frame) /\ mode = "again" /\ ~opSince) =>
        /\ frame = prevFrame
        /\ Len(store) = Len(prevEnd)
        /\ \A i \in 1..Len(store) :
              OperatorValues(store[i]) = OperatorValues(prevEnd[i])
        /\ inserted_count = 0

\* C5 witness: the second of two runs on the same two-row frame, whose first
\* run inserted, has processed both rows.
C5_Witness ==
    /\ mode = "again" /\ pc = "rows" /\ idx = Len(frame) /\ Len(frame) = 2
    /\ frame = prevFrame /\ ~opSince
    /\ Len(prevEnd) > 0 /\ updated_count >= 1

\* C6: an importer step never drops the table, removes a record or changes
\* a stored record's id, po_number or item_serial_number.
C6_RecordsPersist ==
    [][ImportStep =>
         /\ tableExists => tableExists'
         /\ Len(store') >= Len(store)
         /\ \A i \in 1..Len(store) :
               /\ store'[i].id = store[i].id
               /\ KeyOf(store'[i]) = KeyOf(store[i])]_vars

\* C6 witness: a run has committed and a record that an earlier run
\* inserted, whose key is in no row of this run's frame, is still stored.
C6_Witness ==
    /\ pc = "done" /\ report.ok /\ Len(frame) > 0
    /\ \E i \in 1..Len(runStart.st) :
          /\ store[i].item_serial_number # NULL
          /\ KeyOf(store[i]) = KeyOf(runStart.st[i])
          /\ \A k \in 1..Len(frame) : KeyOf(RowValues(frame[k])) # KeyOf(store[i])

EmptyCell(c) == c \in {NaN, "", "  "}

\* C7 (as claimed): every processed row with a blank or whitespace-only
\* po_number or item_serial_number cell was skipped.
C7_EmptyKeySkipped ==
    pc = "rows" =>
        \A k \in 1..idx :
            (EmptyCell(frame[k].po) \/ EmptyCell(frame[k].serial)) =>
                outcomes[k] = "skipped"

\* C8: a row that raises is counted as errored only, every row is still
\* processed, the table ends as if the raising rows had not been in the
\* frame, and the run commits and reports the four counters.
C8_ErroredRowDoesNotAbort ==
    /\ pc = "rows" =>
          /\ Len(outcomes) = idx
          /\ errors_count = Count(outcomes, "errored")
          /\ skipped_count = Count(outcomes, "skipped")
    /\ (pc = "rows" /\ idx = Len(frame) /\ runStart.ops = ops) =>
          store = Replay(runStart.st, cols, uniq, NonErrored(frame, outcomes))
    /\ (pc = "done" /\ outcomes # <<>>) =>
          /\ Len(outcomes) = Len(frame)
          /\ report = [ok |-> TRUE,
                       inserted |-> Count(outcomes, "inserted"),
                       updated |-> Count(outcomes, "updated"),
                       skipped |-> Count(outcomes, "skipped"),
                       errors |-> Count(outcomes, "errored")]

\* C8 witness: a committed run whose first row raised and whose second row
\* was inserted.
C8_Witness ==
    /\ pc = "done" /\ report.ok /\ Len(outcomes) = 2
    /\ outcomes[1] = "errored" /\ outcomes[2] = "inserted"
    /\ Len(store) = Len(runStart.st) + 1

\* C9 (as claimed): once the row loop runs, the table has every key,
\* authoritative and operator column.
C9_AllColumnsPresent ==
    pc = "rows" => (KeyFields \cup AuthoritativeFields \cup OperatorFields) \subseteq cols

-----------------------------------------------------------------------------
(* The dedup step of the sales, repair and custody conversions.  The       *)
(* concatenated input has a document number (單據編號) in every row and may  *)
(* have a name column and a 客戶 column.  The name column is 客戶名稱 for     *)
(* sales and repair and 借貨對象名稱 (stored as 客戶名稱) for custody.         *)

Absent == "<absent>"

\* The document numbers, in ascending order.
DocNumbers == <<"D001", "D002">>

NameCells == {NaN, "  ", " Bob "}

CustCells == {NaN, "C01"}

DocRow(doc, name, cust) == [doc |-> doc, name |-> name, cust |-> cust]

DocRows(hn, hc) ==
    {DocRow(DocNumbers[k], n, c) :
        k \in 1..Len(DocNumbers),
        n \in (IF hn THEN NameCells ELSE {Absent}),
        c \in (IF hc THEN CustCells ELSE {Absent})}

DocFrames(hn, hc) == SeqsUpTo(DocRows(hn, hc), MaxDocRows)

\* A function on 1..n written out as a sequence of n values.
Listed(f) == SubSeq(f, 1, Len(f))

\* astype(str): a blank cell becomes the text "nan".
AsStr(c) == IF c = NaN THEN "nan" ELSE c

\* .astype(str).replace("nan", "").replace("None", "").str.strip()
CleanName(c) ==
    LET t == AsStr(c)
    IN  Strip(IF t \in {"nan", "None"} THEN "" ELSE t)

\* The name normalisation of sales (lines 611-628) and repair (738-755):
\* both columns cleaned, a missing name column copied from 客戶, an empty
\* name filled from 客戶.
NormalizeNames(hn, hc, rows) ==
    Listed([i \in 1..Len(rows) |->
        LET n == IF hn THEN CleanName(rows[i].name) ELSE Absent
            c == IF hc THEN CleanName(rows[i].cust) ELSE Absent
        IN  [doc |-> rows[i].doc,
             name |-> IF ~hn /\ hc THEN c
                      ELSE IF hn /\ hc /\ n \in {"", "nan", "None"} THEN c
                      ELSE n,
             cust |-> c]])

\* __has_name__ = name.astype(str).str.strip().ne("")
HasName(cell) == Strip(AsStr(cell)) # ""

DocRank(d) == CHOOSE k \in 1..Len(DocNumbers) : DocNumbers[k] = d

\* Variant: an unstable sort that leaves tied rows in reverse order.
SortsBefore_TiesReversed(rows, i, j) ==
    \/ DocRank(rows[i].doc) < DocRank(rows[j].doc)
    \/ /\ rows[i].doc = rows[j].doc
       /\ HasName(rows[i].name) /\ ~HasName(rows[j].name)
    \/ /\ rows[i].doc = rows[j].doc
       /\ HasName(rows[i].name) = HasName(rows[j].name)
       /\ i > j

\* Row i comes before row j after sort_values(["單據編號", "__has_name__"],
\* ascending=[True, False]); the sort is stable.
SortsBefore(rows, i, j) ==
    \/ DocRank(rows[i].doc) < DocRank(rows[j].doc)
    \/ /\ rows[i].doc = rows[j].doc
       /\ HasName(rows[i].name) /\ ~HasName(rows[j].name)
    \/ /\ rows[i].doc = rows[j].doc
       /\ HasName(rows[i].name) = HasName(rows[j].name)
       /\ i < j

\* The row positions in sorted order.
SortValues(rows) ==
    Listed([k \in 1..Len(rows) |->
        CHOOSE i \in 1..Len(rows) :
            Cardinality({j \in 1..Len(rows) : SortsBefore(rows, j, i)}) = k - 1])

\* The row positions in the order of the concatenation.
Unsorted(rows) == Listed([k \in 1..Len(rows) |-> k])

\* drop_duplicates(subset=["單據編號"]): of the rows of one document number
\* the first in the given order is kept.
DropDuplicates(rows, order) ==
    LET first == {k \in 1..Len(order) :
                     \A m \in 1..(k - 1) : rows[order[m]].doc # rows[order[k]].doc}
        Pick[n \in 0..Len(order)] ==
            IF n = 0 THEN <<>>
            ELSE IF n \in first THEN Append(Pick[n - 1], order[n]) ELSE Pick[n - 1]
    IN  Pick[Len(order)]

\* The rows at the kept positions, as they are written to the table.
Stored(rows, kept) == Listed([k \in 1..Len(kept) |-> rows[kept[k]]])

\* convert_sales_data, main table (lines 610-642): names normalised, rows
\* sorted when there is a name column, duplicates dropped in every case.
SalesMain(hn, hc, rows) ==
    LET nr == NormalizeNames(hn, hc, rows)
        order == IF hn \/ hc THEN SortValues(nr) ELSE Unsorted(nr)
        kept == DropDuplicates(nr, order)
    IN  [sub |-> "sales", hasName |-> hn, hasCust |-> hc, rows |-> rows,
         kept |-> kept, table |-> Stored(nr, kept)]

\* convert_repair_data (lines 738-765): the sort and the drop_duplicates
\* are both inside `if "單據編號" in columns and "客戶名稱" in columns`.
RepairData(hn, hc, rows) ==
    LET nr == NormalizeNames(hn, hc, rows)
        kept == IF hn \/ hc THEN DropDuplicates(nr, SortValues(nr))
                ELSE Unsorted(nr)
    IN  [sub |-> "repair", hasName |-> hn, hasCust |-> hc, rows |-> rows,
         kept |-> kept, table |-> Stored(nr, kept)]

\* convert_custody_data, main table (lines 1232-1244): the stored 客戶名稱 is
\* the 借貨對象名稱 column as read; the normalisation above it fills other
\* columns.  Sorted when that column exists, duplicates dropped in every case.
CustodyMain(hn, hc, rows) ==
    LET order == IF hn THEN SortValues(rows) ELSE Unsorted(rows)
        kept == DropDuplicates(rows, order)
    IN  [sub |-> "custody", hasName |-> hn, hasCust |-> hc, rows |-> rows,
         kept |-> kept, table |-> Stored(rows, kept)]

ConvertSales ==
    /\ dd.sub = "none"
    /\ \E hn \in BOOLEAN, hc \in BOOLEAN :
          \E f \in DocFrames(hn, hc) : dd' = SalesMain(hn, hc, f)
    /\ UNCHANGED <<pvars, ld, orch, call>>

ConvertRepair ==
    /\ dd.sub = "none"
    /\ \E hn \in BOOLEAN, hc \in BOOLEAN :
          \E f \in DocFrames(hn, hc) : dd' = RepairData(hn, hc, f)
    /\ UNCHANGED <<pvars, ld, orch, call>>

ConvertCustody ==
    /\ dd.sub = "none"
    /\ \E hn \in BOOLEAN, hc \in BOOLEAN :
          \E f \in DocFrames(hn, hc) : dd' = CustodyMain(hn, hc, f)
    /\ UNCHANGED <<pvars, ld, orch, call>>

\* The conversion call returns.
ConvertReturn ==
    /\ dd.sub # "none"
    /\ dd' = NoConversion
    /\ UNCHANGED <<pvars, ld, orch, call>>

InitDedup ==
    InitStore("free") /\ ~tableExists /\ ld = NoLoad /\ orch = NoOrch /\ call = NoCall

NextDedup ==
    \/ ConvertSales
    \/ ConvertRepair
    \/ ConvertCustody
    \/ ConvertReturn

\* The three conversions that deduplicate, called in any order on any input.
SpecDedup == InitDedup /\ [][NextDedup]_vars

-----------------------------------------------------------------------------
(* Properties of the dedup step. *)

DocsOf(rows) == {rows[i].doc : i \in 1..Len(rows)}

RowsOfDoc(rows, d) == {i \in 1..Len(rows) : rows[i].doc = d}

\* C10 (as claimed): after a sales, repair or custody conversion the stored
\* table has exactly one row for each document number of the input and no
\* other row, whatever columns the input has.
C10_OneRowPerDocument ==
    /\ DocsOf(dd.table) = DocsOf(dd.rows)
    /\ \A d \in DocsOf(dd.rows) : Cardinality(RowsOfDoc(dd.table, d)) = 1

\* The name cell is not blank, empty or whitespace only.
NonEmptyName(cell) == cell # Absent /\ CleanName(cell) # ""

\* C11 (as claimed): when the input has a name column and some row of a
\* document number has a non-empty name, every stored row of that document
\* number has a non-empty name.
C11_NamedRowRetained ==
    dd.hasName =>
        \A d \in DocsOf(dd.rows) :
            (\E i \in RowsOfDoc(dd.rows, d) : NonEmptyName(dd.rows[i].name)) =>
                \A k \in RowsOfDoc(dd.table, d) : NonEmptyName(dd.table[k].name)

\* The rows of dd.rows as the sales and repair conversions see their names.
SeenNames == NormalizeNames(dd.hasName, dd.hasCust, dd.rows)

-----------------------------------------------------------------------------
(* The batch-loaded subsystems: source files, store, conversion and         *)
(* insert_data_in_chunks.  One subsystem's store is followed through any    *)
(* number of conversion runs.  The rows of a source file are told apart by  *)
(* file and position; the transforms between reading and loading are left   *)
(* out (the dedup step is treated above), so every table of the subsystem   *)
(* is loaded with the concatenated rows.                                    *)

LoadSubs == {"customer", "sales", "repair", "custody", "inventory"}

\* The workbooks a conversion reads, in the order it reads them.
SourcesOf(sub) ==
    CASE sub = "customer" -> <<"customers.xlsx">>          \* 客戶資料.xlsx
      [] sub = "sales" -> <<"shipments.xlsx",              \* 發貨狀況分析表.xlsx
                            "shengfeng_sales.xlsx">>       \* 昇峰銷售資料.xlsx
      [] sub = "repair" -> <<"repairs.xlsx",               \* 維修資料.xlsx
                             "shengfeng_repairs.xlsx">>    \* 昇峰維修資料.xlsx
      [] sub = "custody" -> <<"custody.xlsx",              \* 寄倉資料.xlsx
                              "shengfeng_custody.xlsx">>   \* 昇峰寄庫資料.xlsx
      [] sub = "inventory" -> <<"inventory.xlsx">>         \* 正航庫存資料.xlsx

\* The tables a conversion loads, in the order it loads them.
TablesOf(sub) ==
    CASE sub = "customer" -> <<"customer_basic">>
      [] sub = "sales" -> <<"sales_main", "sales_detail">>
      [] sub = "repair" -> <<"repair_data">>
      [] sub = "custody" -> <<"custody_main", "custody_detail">>
      [] sub = "inventory" -> <<"inventory_data">>

\* convert_customer_data deletes the store file before it looks for the
\* workbook.
RemovesStoreFirst(sub) == sub = "customer"

\* The chunk sizes of the model; the conversions pass 1000.
ChunkSizes == 1..MaxChunk

NoTable == [exists |-> FALSE, rows |-> <<>>]

\* A row loaded by an earlier run.
Stale == [src |-> "earlier run", k |-> 0]

FileRows(src, n) == Listed([k \in 1..n |-> [src |-> src, k |-> k]])

\* pd.concat of the frames read from the sources that exist, in source order.
RECURSIVE Concat(_, _, _)
Concat(srcs, present, size) ==
    IF srcs = <<>> THEN <<>>
    ELSE (IF Head(srcs) \in present THEN FileRows(Head(srcs), size[Head(srcs)])
          ELSE <<>>) \o Concat(Tail(srcs), present, size)

\* Variant: the conversion gives up as soon as one workbook is missing.
NoSource_AnyAbsent(sub, present) ==
    present # {SourcesOf(sub)[k] : k \in 1..Len(SourcesOf(sub))}

\* `if not df_list: return` (and `if not os.path.exists(path): return`).
NoSource(sub, present) == present = {}

MinNum(a, b) == IF a < b THEN a ELSE b

\* df.iloc[i : i + chunk_size]
ChunkOf(df, i, c) == SubSeq(df, i + 1, MinNum(i + c, Len(df)))

\* chunk.to_sql(if_exists="replace") for the first chunk, "append" after it.
WriteChunk(tbl, i, chunk) ==
    [exists |-> TRUE, rows |-> (IF i = 0 THEN <<>> ELSE tbl.rows) \o chunk]

\* The rows of earlier runs, as the run that starts finds them.
Aged(tbl) == [tbl EXCEPT !.rows = Listed([k \in 1..Len(tbl.rows) |-> Stale])]

Range(f) == {f[x] : x \in DOMAIN f}

\* convert_inventory_inquiry_data creates inventory_data itself and calls the
\* batch loader only `if len(df) > 0`.
CreatesTableFirst(sub) == sub = "inventory"

EmptyTable == [exists |-> TRUE, rows |-> <<>>]

\* A subsystem between two conversion calls.
LoadIdle(sub, tables) ==
    [sub |-> sub, pc |-> "idle", tables |-> tables, present |-> {},
     logged |-> {}, frame |-> <<>>, t |-> 0, i |-> 0, c |-> 0,
     chunks |-> <<>>, conn |-> "none", result |-> "none"]

InitLoad ==
    /\ InitStore("free")
    /\ orch = NoOrch
    /\ call = NoCall
    /\ \E sub \in LoadSubs :
          ld = LoadIdle(sub, Listed([t \in 1..Len(TablesOf(sub)) |-> NoTable]))

\* A conversion is called: it looks for its workbooks, logs the ones that are
\* not there, returns when there is nothing to read, and otherwise reads them
\* and opens the store.
LoadBegin ==
    /\ ld.pc = "idle"
    /\ \E present \in SUBSET Range(SourcesOf(ld.sub)),
          size \in [Range(SourcesOf(ld.sub)) -> 0..MaxFileRows],
          c \in ChunkSizes :
          LET srcs == SourcesOf(ld.sub)
              old == IF RemovesStoreFirst(ld.sub)
                       THEN Listed([t \in 1..Len(ld.tables) |-> NoTable])
                       ELSE ld.tables
              df == Concat(srcs, present, size)
              seen == [ld EXCEPT !.present = present,
                                 !.logged = Range(srcs) \ present]
          IN  ld' =
                IF NoSource(ld.sub, present)
                THEN [seen EXCEPT !.pc = "done", !.tables = old,
                                  !.result = "nosource"]
                ELSE IF CreatesTableFirst(ld.sub)
                THEN [seen EXCEPT
                        !.pc = IF Len(df) > 0 THEN "drop" ELSE "finish",
                        !.tables = [old EXCEPT ![1] = EmptyTable],
                        !.frame = df, !.t = 1, !.c = c, !.conn = "open"]
                ELSE [seen EXCEPT !.pc = "drop", !.tables = old,
                                  !.frame = df, !.t = 1, !.c = c,
                                  !.conn = "open"]
    /\ UNCHANGED <<pvars, dd, orch, call>>

\* insert_data_in_chunks: DROP TABLE IF EXISTS.
LoadDrop ==
    /\ ld.pc = "drop"
    /\ ld' = [ld EXCEPT !.pc = "chunk", !.tables[ld.t] = NoTable,
                        !.i = 0, !.chunks = <<>>]
    /\ UNCHANGED <<pvars, dd, orch, call>>

\* insert_data_in_chunks: one turn of the loop, the chunk is written.
LoadChunk ==
    /\ ld.pc = "chunk"
    /\ ld.i < Len(ld.frame)
    /\ LET chunk == ChunkOf(ld.frame, ld.i, ld.c)
       IN  ld' = [ld EXCEPT
                    !.tables[ld.t] = WriteChunk(ld.tables[ld.t], ld.i, chunk),
                    !.chunks = Append(ld.chunks, chunk),
                    !.i = ld.i + ld.c]
    /\ UNCHANGED <<pvars, dd, orch, call>>

\* insert_data_in_chunks: to_sql raises.  Nothing catches it before the
\* conversion's `except Exception`, which logs and returns: the rest of the
\* conversion, its commit and its close are not run.  The chunk that failed
\* is not stored; the table of a failed first chunk is missing or empty.
LoadChunkFails ==
    /\ ld.pc = "chunk"
    /\ ld.i < Len(ld.frame)
    /\ \E left \in (IF ld.i = 0 THEN {NoTable, EmptyTable}
                    ELSE {ld.tables[ld.t]}) :
          ld' = [ld EXCEPT !.pc = "done", !.tables[ld.t] = left,
                           !.conn = "abandoned", !.result = "failed"]
    /\ UNCHANGED <<pvars, dd, orch, call>>

\* insert_data_in_chunks: the loop is over, the loader returns.
LoadLoaded ==
    /\ ld.pc = "chunk"
    /\ ld.i >= Len(ld.frame)
    /\ ld' = [ld EXCEPT !.pc = "loaded"]
    /\ UNCHANGED <<pvars, dd, orch, call>>

\* The conversion goes on to its next table, or to its commit.
LoadNext ==
    /\ ld.pc = "loaded"
    /\ ld' = IF ld.t < Len(TablesOf(ld.sub))
             THEN [ld EXCEPT !.pc = "drop", !.t = ld.t + 1]
             ELSE [ld EXCEPT !.pc = "finish"]
    /\ UNCHANGED <<pvars, dd, orch, call>>

\* Indexes (create_indexes_batch swallows its errors), commit, close.
LoadFinish ==
    /\ ld.pc = "finish"
    /\ ld' = [ld EXCEPT !.pc = "done", !.conn = "closed", !.result = "ok"]
    /\ UNCHANGED <<pvars, dd, orch, call>>

\* The conversion has returned; what it stored is now the work of an
\* earlier run.
LoadReturn ==
    /\ ld.pc = "done"
    /\ ld' = LoadIdle(ld.sub,
                      Listed([t \in 1..Len(ld.tables) |-> Aged(ld.tables[t])]))
    /\ UNCHANGED <<pvars, dd, orch, call>>

NextLoad ==
    \/ LoadBegin
    \/ LoadDrop
    \/ LoadChunk
    \/ LoadChunkFails
    \/ LoadLoaded
    \/ LoadNext
    \/ LoadFinish
    \/ LoadReturn

SpecLoad == InitLoad /\ [][NextLoad]_vars

RECURSIVE Flatten(_)
Flatten(ss) == IF ss = <<>> THEN <<>> ELSE Head(ss) \o Flatten(Tail(ss))

CeilDiv(n, c) == (n + c - 1) \div c

\* The chunks written by a call of the loader that has returned split the
\* frame df into ceil(N/c) consecutive slices of c rows, the last one of 1..c.
ChunkedAsClaimed(chunks, df, c) ==
    /\ Len(chunks) = CeilDiv(Len(df), c)
    /\ \A k \in 1..Len(chunks) :
          /\ k < Len(chunks) => Len(chunks[k]) = c
          /\ Len(chunks[k]) \in 1..c
    /\ Flatten(chunks) = df

\* C13: when insert_data_in_chunks returns from a frame of N rows and chunk
\* size c, it has written ceil(N/c) consecutive chunks, each of c rows except
\* possibly the last, every row in exactly one chunk, and the target table
\* holds exactly the N rows of the frame and no row of an earlier run.
\* Fails for N = 0: the table was dropped and no chunk creates it again.
C13_LoaderLeavesFrameInTable ==
    ld.pc = "loaded" =>
        /\ ChunkedAsClaimed(ld.chunks, ld.frame, ld.c)
        /\ ld.tables[ld.t].exists
        /\ ld.tables[ld.t].rows = ld.frame

\* C14: when writing a chunk of a table fails, the chunks written before it
\* stay in that table and only that table's load is aborted: every other
\* table of the same conversion is loaded with this run's frame.
\* Fails: the exception leaves the conversion, so sales_detail is not loaded
\* after a failure in sales_main.
C14_OnlyFailedTableAborted ==
    (ld.pc = "done" /\ ld.result = "failed") =>
        /\ ld.tables[ld.t].rows = SubSeq(ld.frame, 1, ld.i)
        /\ \A u \in 1..Len(ld.tables) :
              u # ld.t => ld.tables[u] = [exists |-> TRUE, rows |-> ld.frame]

\* The rows a table holds (none when the table does not exist).
RowsIn(tbl) == {tbl.rows[k] : k \in 1..Len(tbl.rows)}

\* C15: after any run of a conversion, its tables hold only records derived
\* from source files present in that run; no record loaded by an earlier
\* run remains.
\* Fails: a conversion that finds none of its workbooks returns before it
\* drops anything (only the customer conversion removes its store first).
C15_NoRecordOutlivesItsSource ==
    ld.pc = "done" =>
        \A t \in 1..Len(ld.tables) :
            \A r \in RowsIn(ld.tables[t]) :
                r # Stale /\ r.src \in ld.present

\* The number of rows of a frame that were read from one workbook.
SizeIn(df, src) == Cardinality({k \in 1..Len(df) : df[k].src = src})

-----------------------------------------------------------------------------
(* The orchestrators and the integrity verifier.  A conversion is one step: *)
(* it is called, does its work and returns (the conversions run one after   *)
(* the other, in one thread).  What a conversion did to its store is kept   *)
(* as far as the verifier can see it: the store file is there or not, a     *)
(* table is there or not.  log_time is taken to print without raising.      *)

\* The subsystems of the catalog.
Catalog ==
    <<"customer", "sales", "repair", "custody", "service_card", "crm_notes",
      "sales_ai", "procuretrack", "inventory">>

\* The calls of run_bi_full_conversion, in order.
FullSequence ==
    <<"customer", "sales", "repair", "custody", "crm_notes", "service_card",
      "sales_ai", "procuretrack", "inventory">>

\* The calls of run_bi_daily_update, in order.
DailySequence ==
    <<"customer", "sales", "repair", "custody", "service_card",
      "sales_ai", "procuretrack", "inventory">>

SequenceOf(m) == IF m = "full" THEN FullSequence ELSE DailySequence

StoreOf(conv) ==
    CASE conv = "customer" -> "customer_new.db"
      [] conv = "sales" -> "sales.db"
      [] conv = "repair" -> "repair.db"
      [] conv = "custody" -> "custody.db"
      [] conv = "service_card" -> "service_card.db"
      [] conv = "crm_notes" -> "crm_notes.db"               \* CRM記事.db
      [] conv = "sales_ai" -> "sales_ai.db"
      [] conv = "procuretrack" -> "procure.db"
      [] conv = "inventory" -> "inventory_data.db"

\* The tables a conversion that succeeds leaves in its store, as far as the
\* verifier asks for them.
LoadedTables(conv) ==
    CASE conv = "customer" -> {"customer_basic"}
      [] conv = "sales" -> {"sales_main", "sales_detail"}
      [] conv = "repair" -> {"repair_data"}
      [] conv = "custody" -> {"custody_main", "custody_detail"}
      [] conv = "service_card" -> {"service_card_data"}
      [] conv = "crm_notes" -> {"crm_notes"}
      [] conv = "sales_ai" -> {"sales_data"}
      [] conv = "procuretrack" -> {"procure_items"}
      [] conv = "inventory" -> {"inventory_data"}

Entry(db, table, label) == [db |-> db, table |-> table, label |-> label]

\* sales_databases, inventory_inquiry_databases, procuretrack_databases.
VerifyEntries ==
    <<Entry("sales.db", "sales_main", "sales main"),                 \* 銷售主檔
      Entry("sales.db", "sales_detail", "sales detail"),             \* 銷售明細
      Entry("repair.db", "repair_data", "repair"),                   \* 維修資料
      Entry("custody.db", "custody_main", "custody main"),           \* 寄倉主檔
      Entry("custody.db", "custody_detail", "custody detail"),       \* 寄倉明細
      Entry("customer_new.db", "customer_basic", "customers"),       \* 客戶基本資料
      Entry("service_card.db", "service_card_data", "service cards"),\* 服務登記卡資料
      Entry("crm_notes.db", "crm_notes", "CRM notes"),               \* CRM記事
      Entry("sales_ai.db", "sales_data", "AI sales"),                \* AI銷售資料
      Entry("inventory_data.db", "inventory_data", "inventory"),     \* 正航庫存資料
      Entry("procure.db", "procure_data", "procurement")>>           \* 採購到貨資料

AllStores == {StoreOf(Catalog[k]) : k \in 1..Len(Catalog)}

AllTables == UNION {LoadedTables(Catalog[k]) : k \in 1..Len(Catalog)}

\* The ways a conversion call can go: it commits and closes; it finds no
\* workbook and returns; its body raises before the store is opened; its
\* body raises after the store is opened.
Outcomes == {"ok", "nosource", "failed_early", "failed_late"}

\* Variant: an exception raised after the store was opened leaves the
\* conversion.
Caught_NotAfterConnect(outcome) == outcome # "failed_late"

\* Every conversion's body is inside `try: ... except Exception as e:` whose
\* handler logs and returns.
Caught(outcome) == TRUE

\* Variant: an entry whose count fails ends the verifier.
CountGuarded_Not(entry) == FALSE

\* The count of every entry is inside its own try/except inside the loop.
CountGuarded(entry) == TRUE

\* The report line of one entry.
LineFor(entry, dbs, tabs) ==
    [label |-> entry.label,
     kind |-> IF entry.db \notin dbs THEN "nostore"       \* 找不到資料庫
              ELSE IF entry.table \in tabs THEN "count"   \* N 筆
              ELSE "failed"]                              \* 驗證失敗

OrchIdle(dbs, tabs) ==
    [mode |-> "idle", pc |-> "idle", calls |-> <<>>, failed |-> {},
     unclosed |-> {}, dbs |-> dbs, tabs |-> tabs, faults |-> 0,
     lines |-> <<>>, verified |-> 0, summary |-> FALSE, raised |-> FALSE,
     procured |-> FALSE]

InitRun ==
    /\ InitStore("free")
    /\ ld = NoLoad
    /\ call = NoCall
    /\ \/ orch = OrchIdle({}, {})
       \/ orch = OrchIdle(AllStores, AllTables)

\* run_bi_full_conversion or run_bi_daily_update is called.
OrchStart ==
    /\ orch.pc = "idle"
    /\ \E m \in {"full", "daily"} :
          orch' = [orch EXCEPT !.mode = m, !.pc = "convert"]
    /\ UNCHANGED <<pvars, dd, ld, call>>

\* The next conversion of the sequence is called and returns.
OrchConvert ==
    /\ orch.pc = "convert"
    /\ Len(orch.calls) < Len(SequenceOf(orch.mode))
    /\ \E outcome \in Outcomes :
          LET conv == SequenceOf(orch.mode)[Len(orch.calls) + 1]
              own == LoadedTables(conv)
              removed == conv = "customer"
              called == [orch EXCEPT !.calls = Append(orch.calls, conv)]
              fault == [called EXCEPT !.faults = orch.faults + 1]
              early == IF removed
                       THEN [fault EXCEPT !.dbs = orch.dbs \ {StoreOf(conv)},
                                          !.tabs = orch.tabs \ own]
                       ELSE fault
              escaped(o) == IF Caught(outcome) THEN o
                            ELSE [o EXCEPT !.pc = "done", !.raised = TRUE]
          IN  /\ outcome # "ok" => orch.faults < MaxFaults
              /\ CASE outcome = "ok" ->
                        orch' = [called EXCEPT
                                   !.dbs = orch.dbs \cup {StoreOf(conv)},
                                   !.tabs = orch.tabs \cup own,
                                   !.procured = (orch.procured
                                                   \/ conv = "procuretrack")]
                   [] outcome = "nosource" ->
                        orch' = early
                   [] outcome = "failed_early" ->
                        orch' = escaped([early EXCEPT
                                   !.failed = orch.failed \cup {conv}])
                   [] outcome = "failed_late" ->
                        \E left \in SUBSET own :
                           orch' = escaped([fault EXCEPT
                                      !.failed = orch.failed \cup {conv},
                                      !.unclosed = orch.unclosed \cup {conv},
                                      !.dbs = orch.dbs \cup {StoreOf(conv)},
                                      !.tabs = (orch.tabs \ own) \cup left])
    /\ UNCHANGED <<pvars, dd, ld, call>>

\* The last conversion has returned: verify_data_integrity is called.
OrchVerify ==
    /\ orch.pc = "convert"
    /\ Len(orch.calls) = Len(SequenceOf(orch.mode))
    /\ orch' = [orch EXCEPT !.pc = "verify", !.verified = orch.verified + 1]
    /\ UNCHANGED <<pvars, dd, ld, call>>

\* verify_data_integrity: one turn of its loops.
VerifyEntry ==
    /\ orch.pc = "verify"
    /\ Len(orch.lines) < Len(VerifyEntries)
    /\ LET entry == VerifyEntries[Len(orch.lines) + 1]
           line == LineFor(entry, orch.dbs, orch.tabs)
       IN  orch' = IF line.kind = "failed" /\ ~CountGuarded(entry)
                   THEN [orch EXCEPT !.pc = "done", !.raised = TRUE]
                   ELSE [orch EXCEPT !.lines = Append(orch.lines, line)]
    /\ UNCHANGED <<pvars, dd, ld, call>>

\* The verifier has returned: the orchestrator logs its completion line.
OrchSummary ==
    /\ orch.pc = "verify"
    /\ Len(orch.lines) = Len(VerifyEntries)
    /\ orch' = [orch EXCEPT !.pc = "done", !.summary = TRUE]
    /\ UNCHANGED <<pvars, dd, ld, call>>

NextRun ==
    \/ OrchStart
    \/ OrchConvert
    \/ OrchVerify
    \/ VerifyEntry
    \/ OrchSummary

SpecRun == InitRun /\ [][NextRun]_vars

\* C17: in both orchestrators a failure inside a conversion stays inside it:
\* nothing is raised out of the run, the conversions are called in sequence
\* with none left out after a failed one, the verifier starts only after the
\* whole sequence, the run is never stuck before its end, and at its end
\* the verifier has reported every entry and the completion line is logged.
C17_FailureStaysInsideConversion ==
    /\ ~orch.raised
    /\ orch.mode \in {"full", "daily"} =>
          /\ orch.calls = SubSeq(SequenceOf(orch.mode), 1, Len(orch.calls))
          /\ orch.pc \in {"verify", "done"} =>
                orch.calls = SequenceOf(orch.mode)
          /\ orch.pc = "done" =>
                /\ Len(orch.lines) = Len(VerifyEntries)
                /\ orch.summary
    /\ orch.pc # "done" => ENABLED NextRun

\* C17 witness: a daily run in which the first conversion failed before it
\* opened its store and the procurement import failed after it, with every
\* conversion called, the verifier finished and the completion line logged.
C17_Witness ==
    /\ orch.mode = "daily" /\ orch.pc = "done" /\ orch.summary
    /\ orch.failed = {"customer", "procuretrack"}
    /\ orch.unclosed = {"procuretrack"}
    /\ orch.calls = DailySequence
    /\ Len(orch.lines) = Len(VerifyEntries)

TimesCalled(conv, calls) ==
    Cardinality({k \in 1..Len(calls) : calls[k] = conv})

\* C18: a run of either orchestrator that has reached its verifier has
\* called the conversion of every subsystem of the catalog exactly once, and
\* runs the verifier exactly once, after the conversions.
\* Fails: run_bi_daily_update does not call convert_crm_notes.
C18_EverySubsystemOnce ==
    /\ orch.pc = "convert" => orch.verified = 0
    /\ orch.pc \in {"verify", "done"} =>
          /\ orch.verified = 1
          /\ \A k \in 1..Len(Catalog) :
                TimesCalled(Catalog[k], orch.calls) = 1

\* C19: at the moment a conversion begins, every store connection opened by
\* an earlier conversion of the run has been committed and closed.
\* Fails: a conversion that raises after sqlite3.connect returns through its
\* except clause, which neither commits nor closes.
C19_EarlierConnectionsClosed ==
    (orch.pc = "convert" /\ Len(orch.calls) < Len(SequenceOf(orch.mode))) =>
        orch.unclosed = {}

\* C20: the verifier reports its entries in list order, one line per entry,
\* a count when the store and the table are there and a warning when the
\* store or the table is missing, and it ends only after the last entry.
C20_OneLinePerEntry ==
    /\ Len(orch.lines) <= Len(VerifyEntries)
    /\ \A k \in 1..Len(orch.lines) :
          orch.lines[k] = LineFor(VerifyEntries[k], orch.dbs, orch.tabs)
    /\ orch.pc = "done" => Len(orch.lines) = Len(VerifyEntries)
    /\ orch.pc = "verify" => ~orch.raised

\* C20 witness: a finished verifier run that met a missing store, a missing
\* table in a store that is there, and tables it could count after them.
C20_Witness ==
    /\ orch.pc = "done"
    /\ Len(orch.lines) = Len(VerifyEntries)
    /\ orch.lines[1].kind = "count"
    /\ orch.lines[2].kind = "failed"
    /\ orch.lines[6].kind = "nostore"
    /\ orch.lines[10].kind = "count"
    /\ orch.lines[11].kind = "failed"

-----------------------------------------------------------------------------
(* Further properties of the procurement import. *)

\* C26: in a procurement import run the four counters add up to the number
\* of rows processed so far, the table has grown by exactly the inserted
\* count, and a run that commits reports counters that add up to the number
\* of rows of its frame.
C26_CountersPartitionRows ==
    /\ pc = "rows" =>
          /\ inserted_count + updated_count + skipped_count + errors_count = idx
          /\ Len(store) = Len(runStart.st) + inserted_count
    /\ (pc = "done" /\ report.ok) =>
          /\ report.inserted + report.updated + report.skipped + report.errors
                = Len(frame)
          /\ Len(store) = Len(runStart.st) + report.inserted

\* C26 witness: a committed run over two rows, one skipped and one inserted.
C26_Witness ==
    /\ pc = "done" /\ report.ok /\ Len(frame) = 2
    /\ report.skipped = 1 /\ report.inserted = 1
    /\ Len(store) = Len(runStart.st) + 1

MaxOf(S) == CHOOSE x \in S : \A y \in S : x >= y

AuthoritativeValues(r) == [c \in AuthoritativeFields |-> r[c]]

\* The rows of the frame whose key, as the importer reads it, is k.
RowsOfKey(k) ==
    {i \in 1..Len(frame) : KeyOf(RowValues(frame[i])) = k}

\* The keys of the frame that are complete and were not stored when the
\* run began.
NewKeys ==
    {KeyOf(RowValues(frame[i])) : i \in 1..Len(frame)}
        \ ({KeyOf(runStart.st[j]) : j \in 1..Len(runStart.st)}
              \cup {k \in {KeyOf(RowValues(frame[i])) : i \in 1..Len(frame)} :
                       k[1] = "" \/ k[2] = ""})

RecordsOfKey(k) == {j \in 1..Len(store) : KeyOf(store[j]) = k}

C28_OperatorWriteNotLost ==
    [][/\ ops' = ops + 1 =>
             \E q \in Requests, id \in 1..Len(store) :
                /\ q.field \in OperatorFields
                /\ store' = SetField(store, id, q.field, q.value)
                /\ store'[id][q.field] = q.value
       /\ ops' = ops =>
             /\ Len(store') >= Len(store)
             /\ \A i \in 1..Len(store) :
                   \A f \in OperatorFields : store'[i][f] = store[i][f]]_vars

\* C28 witness: the operator wrote a remark on a stored record after the
\* run had begun and before the run's first write (the first row was
\* skipped); the second row then updated that record, and at the end of
\* the row loop the remark is the stored value.
C28_Witness ==
    /\ pc = "rows" /\ idx = 2 /\ Len(frame) = 2
    /\ outcomes = <<"skipped", "updated">>
    /\ runStart.ops = 0 /\ ops = 1
    /\ \E i \in 1..Len(runStart.st) :
          /\ runStart.st[i].remarks # "call vendor"
          /\ store[i].remarks = "call vendor"
          /\ store[i].quantity # runStart.st[i].quantity

\* C29: in a run whose procurement import returned True, the verifier's
\* procurement entry reports a row count, not a warning.
\* Fails: the entry names the table procure_data, which the import does not
\* write (it writes procure_items).
C29_ProcurementEntryCounts ==
    (orch.procured /\ Len(orch.lines) = Len(VerifyEntries)) =>
        /\ VerifyEntries[Len(VerifyEntries)].db = StoreOf("procuretrack")
        /\ orch.lines[Len(VerifyEntries)].kind = "count"

\* C30: when insert_data_in_chunks returns from an empty frame, the target
\* table exists and holds no rows.
\* Fails: the table was dropped and no chunk creates it again.
C30_EmptyFrameLeavesEmptyTable ==
    (ld.pc = "loaded" /\ Len(ld.frame) = 0) => ld.tables[ld.t] = EmptyTable

-----------------------------------------------------------------------------
(* convert_datetime_optimized on one date column.  A column is of one      *)
(* kind, as pandas types it: "text" (object dtype: texts and blank cells), *)
(* "int" (int64: whole numbers, no blank cell) or "datetime" (datetime64:  *)
(* timestamps and NaT).  Dates are written in the canonical form, the      *)
(* blank result of a failed parse (NaT, then NaN after strftime) is NaN.   *)
(* pd.to_datetime with a format is taken to match the whole text, as       *)
(* pandas 2 does.                                                          *)

NaT == "<NaT>"

\* 2020/01/16(4) stands for 2020/01/16(四).
TextCells ==
    {NaN, "2020/01/16(4)", "2020-01-16", "03/04/2020", "16/01/2020",
     "20200116", "Jan 16, 2020", "TBD"}

IntCells == {1, 45000, 100000, 100001, 20200116}

TimeCells == {NaT, "<ts 2020-01-16 08:30:00>"}

Kinds == {"text", "int", "datetime"}

CellsOf(kind) ==
    CASE kind = "text" -> TextCells
      [] kind = "int" -> IntCells
      [] kind = "datetime" -> TimeCells

formats_to_try ==
    <<"%Y/%m/%d", "%Y-%m-%d", "%Y/%m/%d %H:%M:%S", "%Y-%m-%d %H:%M:%S",
      "%m/%d/%Y", "%d/%m/%Y", "%Y%m%d">>

\* str(value) of a whole number of the model.
NumText(n) ==
    CASE n = 1 -> "1"
      [] n = 45000 -> "45000"
      [] n = 100000 -> "100000"
      [] n = 100001 -> "100001"
      [] n = 20200116 -> "20200116"

\* clean_date_string: a blank cell stays blank; otherwise the text of the
\* value without a (一)..(日) weekday mark, stripped.
clean_date_string(kind, c) ==
    IF kind = "int" THEN NumText(c)
    ELSE IF c = NaN THEN NaN
    ELSE IF c = "2020/01/16(4)" THEN "2020/01/16"
    ELSE c

\* pd.to_datetime(text, format=fmt, errors="coerce").strftime(canonical)
ParseWith(fmt, t) ==
    CASE fmt = "%Y/%m/%d" /\ t = "2020/01/16" -> "2020-01-16 00:00:00"
      [] fmt = "%Y-%m-%d" /\ t = "2020-01-16" -> "2020-01-16 00:00:00"
      [] fmt = "%m/%d/%Y" /\ t = "03/04/2020" -> "2020-03-04 00:00:00"
      [] fmt = "%d/%m/%Y" /\ t = "03/04/2020" -> "2020-04-03 00:00:00"
      [] fmt = "%d/%m/%Y" /\ t = "16/01/2020" -> "2020-01-16 00:00:00"
      [] fmt = "%Y%m%d" /\ t = "20200116" -> "2020-01-16 00:00:00"
      [] OTHER -> NaN

\* pd.to_datetime(text, errors="coerce").strftime(canonical), on the texts
\* that no explicit pattern parses.
ParseGeneric(t) ==
    IF t = "Jan 16, 2020" THEN "2020-01-16 00:00:00" ELSE NaN

\* pd.to_datetime(n, origin="1899-12-30", unit="D", errors="coerce")
\* .strftime(canonical); a date beyond the year 2262 is out of bounds.
SerialDate(n) ==
    CASE n = 1 -> "1899-12-31 00:00:00"
      [] n = 45000 -> "2023-03-15 00:00:00"
      [] n = 100000 -> "2173-10-14 00:00:00"
      [] n = 100001 -> "2173-10-15 00:00:00"
      [] OTHER -> NaN

\* original_data.dt.strftime(canonical)
StrfTime(c) == IF c = NaT THEN NaN ELSE "2020-01-16 08:30:00"

\* original_data.astype(str)
AsText(kind, c) ==
    IF kind = "int" THEN NumText(c)
    ELSE IF c = NaN THEN "nan"
    ELSE IF c = NaT THEN "NaT"
    ELSE c

IsNull(kind, c) == kind # "int" /\ c \in {NaN, NaT}

AnyValue(cells) == \E k \in 1..Len(cells) : cells[k] # NaN

\* The column before the call: df[col] is the input.
DateCall(kind, cells) ==
    [fn |-> "dates", pc |-> "start", kind |-> kind, cells |-> cells,
     out |-> cells, tried |-> <<>>, applied |-> "none"]

InitDates ==
    /\ InitStore("free") /\ ~tableExists
    /\ ld = NoLoad /\ orch = NoOrch
    /\ \E kind \in Kinds :
          \E cells \in SeqsUpTo(CellsOf(kind), MaxCol) :
             call = DateCall(kind, cells)

\* The head of the loop body: an all-blank column is skipped; a datetime
\* column is formatted; a numeric column with a value in [1, 100000] is
\* converted as day serials; anything else goes on to the text patterns.
DateBegin ==
    /\ call.fn = "dates" /\ call.pc = "start"
    /\ LET in_range == {k \in 1..Len(call.cells) :
                           call.cells[k] >= 1 /\ call.cells[k] <= 100000}
           Serial(c) == SerialDate(c)
           serials == Listed([k \in 1..Len(call.cells) |-> Serial(call.cells[k])])
       IN  call' =
             IF \A k \in 1..Len(call.cells) : IsNull(call.kind, call.cells[k])
             THEN [call EXCEPT !.pc = "done", !.applied = "skipped"]
             ELSE IF call.kind = "datetime"
             THEN [call EXCEPT !.pc = "done", !.applied = "datetime",
                               !.out = Listed([k \in 1..Len(call.cells) |-> StrfTime(call.cells[k])])]
             ELSE IF call.kind = "int" /\ in_range # {} /\ AnyValue(serials)
             THEN [call EXCEPT !.pc = "done", !.applied = "serial",
                               !.out = serials]
             ELSE [call EXCEPT !.pc = "patterns"]
    /\ UNCHANGED <<pvars, dd, ld, orch>>

\* Variant: a pattern that parses a value is applied, and the loop goes on
\* to the patterns after it.
DateTryFormat_NoBreak ==
    /\ call.fn = "dates" /\ call.pc = "patterns"
    /\ Len(call.tried) < Len(formats_to_try)
    /\ LET fmt == formats_to_try[Len(call.tried) + 1]
           Parse(c) == ParseWith(fmt, clean_date_string(call.kind, c))
           test_conversion == Listed([k \in 1..Len(call.cells) |-> Parse(call.cells[k])])
       IN  call' =
             IF AnyValue(test_conversion)
             THEN [call EXCEPT !.tried = Append(call.tried, fmt),
                               !.pc = IF Len(call.tried) + 1
                                          = Len(formats_to_try)
                                      THEN "done" ELSE "patterns",
                               !.applied = fmt, !.out = test_conversion]
             ELSE [call EXCEPT !.tried = Append(call.tried, fmt),
                               !.pc = IF call.applied # "none"
                                         /\ Len(call.tried) + 1
                                               = Len(formats_to_try)
                                      THEN "done" ELSE "patterns"]
    /\ UNCHANGED <<pvars, dd, ld, orch>>

\* One turn of `for fmt in formats_to_try`: the next pattern is tried on the
\* cleaned column; when it parses at least one value the whole column is
\* replaced by its result and the loop is left.
DateTryFormat ==
    /\ call.fn = "dates" /\ call.pc = "patterns"
    /\ Len(call.tried) < Len(formats_to_try)
    /\ LET fmt == formats_to_try[Len(call.tried) + 1]
           Parse(c) == ParseWith(fmt, clean_date_string(call.kind, c))
           test_conversion == Listed([k \in 1..Len(call.cells) |-> Parse(call.cells[k])])
       IN  call' =
             IF AnyValue(test_conversion)
             THEN [call EXCEPT !.tried = Append(call.tried, fmt),
                               !.pc = "done", !.applied = fmt,
                               !.out = test_conversion]
             ELSE [call EXCEPT !.tried = Append(call.tried, fmt)]
    /\ UNCHANGED <<pvars, dd, ld, orch>>

\* No pattern parsed anything: the generic parser is tried; when it parses
\* nothing either, the column becomes the text of the original values.
DateGeneric ==
    /\ call.fn = "dates" /\ call.pc = "patterns"
    /\ Len(call.tried) = Len(formats_to_try)
    /\ LET Parse(c) == ParseGeneric(clean_date_string(call.kind, c))
           Text(c) == AsText(call.kind, c)
           test_conversion == Listed([k \in 1..Len(call.cells) |-> Parse(call.cells[k])])
       IN  call' =
             IF AnyValue(test_conversion)
             THEN [call EXCEPT !.pc = "done", !.applied = "generic",
                               !.out = test_conversion]
             ELSE [call EXCEPT !.pc = "done", !.applied = "text",
                               !.out = Listed([k \in 1..Len(call.cells) |-> Text(call.cells[k])])]
    /\ UNCHANGED <<pvars, dd, ld, orch>>

NextDates ==
    \/ DateBegin
    \/ DateTryFormat
    \/ DateGeneric

SpecDates == InitDates /\ [][NextDates]_vars

-----------------------------------------------------------------------------
(* Properties of the date conversion.                                      *)

InSerialRange(n) == n >= 1 /\ n <= 100000

Patterns == {formats_to_try[i] : i \in 1..Len(formats_to_try)}

\* The canonical dates that the strategies give for one value taken alone.
DatesOf(kind, c) ==
    IF IsNull(kind, c) THEN {}
    ELSE IF kind = "datetime" THEN {StrfTime(c)}
    ELSE ((IF kind = "int" /\ InSerialRange(c) THEN {SerialDate(c)} ELSE {})
            \cup {ParseWith(fmt, clean_date_string(kind, c)) :
                     fmt \in Patterns}
            \cup {ParseGeneric(clean_date_string(kind, c))}) \ {NaN}

\* C21: after the call every non-blank value of the column is either its
\* calendar date in the canonical form or, when no strategy parses it, the
\* text of the original value.
C21_ValueByValue ==
    (call.fn = "dates" /\ call.pc = "done")
      => \A k \in 1..Len(call.cells) :
           ~IsNull(call.kind, call.cells[k])
             => IF DatesOf(call.kind, call.cells[k]) = {}
                THEN call.out[k] = AsText(call.kind, call.cells[k])
                ELSE call.out[k] \in DatesOf(call.kind, call.cells[k])

\* C24: in a numeric column that was converted as day serials, a value
\* outside [1, 100000] did not get the date 1899-12-30 plus that many days.
C24_SerialOnlyInRange ==
    (call.fn = "dates" /\ call.pc = "done" /\ call.kind = "int"
       /\ call.applied = "serial")
      => \A k \in 1..Len(call.cells) :
           ~InSerialRange(call.cells[k])
             => call.out[k] # SerialDate(call.cells[k])

ParsesAny(fmt, kind, cells) ==
    \E k \in 1..Len(cells) :
       ParseWith(fmt, clean_date_string(kind, cells[k])) # NaN

WholeColumn(fmt, kind, cells) ==
    Listed([k \in 1..Len(cells) |->
               ParseWith(fmt, clean_date_string(kind, cells[k]))])

\* C25: the patterns are tried in the order of the list; every pattern
\* tried before the last one parsed nothing; a pattern is applied exactly
\* when it is the first that parses a value, and then the column is the
\* whole column parsed with it and nothing is tried after it; the generic
\* parser and the text fallback come only after all seven parsed nothing.
C25_FirstParsingPatternWins ==
    (call.fn = "dates" /\ call.kind = "text")
      => /\ Len(call.tried) <= Len(formats_to_try)
         /\ \A i \in 1..Len(call.tried) : call.tried[i] = formats_to_try[i]
         /\ \A i \in 1..(Len(call.tried) - 1) :
               ~ParsesAny(call.tried[i], call.kind, call.cells)
         /\ call.pc = "patterns"
              => /\ call.applied = "none"
                 /\ call.out = call.cells
                 /\ \A i \in 1..Len(call.tried) :
                       ~ParsesAny(call.tried[i], call.kind, call.cells)
         /\ call.applied \in Patterns
              => /\ call.pc = "done"
                 /\ call.tried # <<>>
                 /\ call.applied = call.tried[Len(call.tried)]
                 /\ ParsesAny(call.applied, call.kind, call.cells)
                 /\ call.out
                      = WholeColumn(call.applied, call.kind, call.cells)
         /\ call.applied \in {"generic", "text"}
              => /\ call.tried = formats_to_try
                 /\ \A fmt \in Patterns :
                       ~ParsesAny(fmt, call.kind, call.cells)
         /\ (call.pc = "done" /\ call.applied # "skipped")
              => call.applied \in Patterns \cup {"generic", "text"}

\* C25 witness: a column that both day-month orders could read was parsed
\* with the month-first pattern, the earlier of the two in the list, and
\* the value only the day-first pattern reads was left blank.
C25_Witness ==
    /\ call.fn = "dates" /\ call.pc = "done" /\ call.kind = "text"
    /\ call.cells = <<"03/04/2020", "16/01/2020">>
    /\ call.applied = "%m/%d/%Y"
    /\ Len(call.tried) = 5
    /\ call.out = <<"2020-03-04 00:00:00", NaN>>

-----------------------------------------------------------------------------
(* The customer column reconciler of convert_customer_data: customer_df is *)
(* built column by column from df_customer.  Three of the eleven canonical *)
(* columns are modelled, each with its two candidates.  A cell is a record: *)
(* a text read from the workbook, a blank cell (NaN) or the empty string.  *)

\* code is 客戶代碼, name is 客戶名稱, address is 聯絡地址
column_mapping ==
    <<[target |-> "code", possible_cols |-> <<"code", "Unnamed: 0">>],
      [target |-> "name", possible_cols |-> <<"name", "Unnamed: 3">>],
      [target |-> "address", possible_cols |-> <<"address", "Unnamed: 2">>]>>

CanonicalColumns == {column_mapping[i].target : i \in 1..Len(column_mapping)}

SourceNames ==
    UNION {{column_mapping[i].possible_cols[j] :
               j \in 1..Len(column_mapping[i].possible_cols)} :
             i \in 1..Len(column_mapping)}

TextCell(c, r) == [v |-> "text", col |-> c, row |-> r]

BlankCell == [v |-> "nan"]

EmptyString == [v |-> "empty"]

\* df_customer[c]: the texts of column c; in a column of blanks_in the last
\* row is a blank cell.
SourceColumn(c, nrows, blanks_in) ==
    Listed([r \in 1..nrows |->
               IF r = nrows /\ c \in blanks_in THEN BlankCell
               ELSE TextCell(c, r)])

\* .astype(str).replace("nan", "").replace("None", "") on one cell
AsCleanText(cell) == IF cell = BlankCell THEN EmptyString ELSE cell

\* The first candidate of the list that is a column of df_customer, or 0.
FirstPresent(possible_cols, present) ==
    IF \E j \in 1..Len(possible_cols) : possible_cols[j] \in present
    THEN MinOf({j \in 1..Len(possible_cols) : possible_cols[j] \in present})
    ELSE 0

\* A column of n equal cells.
Filled(n, cell) == Listed([r \in 1..n |-> cell])

\* customer_df = pd.DataFrame(): no column and no row.
ReconcileCall(present, nrows, blanks_in) ==
    [fn |-> "columns", pc |-> "mapping", present |-> present,
     nrows |-> nrows, blanks_in |-> blanks_in, at |-> 0, index |-> 0,
     made |-> {}, data |-> [c \in CanonicalColumns |-> <<>>],
     kept |-> {}]

InitColumns ==
    /\ InitStore("free") /\ ~tableExists
    /\ ld = NoLoad /\ orch = NoOrch
    /\ \E present \in SUBSET SourceNames :
          \E nrows \in 0..MaxSrcRows :
             \E blanks_in \in SUBSET present :
                call = ReconcileCall(present, nrows, blanks_in)

\* One turn of `for target_col, possible_cols in column_mapping.items()`.
\* Setting a column from a Series on a frame that has no row yet gives the
\* frame the Series' index, and the columns made before are filled with
\* NaN over it; setting a column from the scalar "" fills the rows the
\* frame has at that moment.
ReconcileColumn ==
    /\ call.fn = "columns" /\ call.pc = "mapping"
    /\ call.at < Len(column_mapping)
    /\ LET entry == column_mapping[call.at + 1]
           j == FirstPresent(entry.possible_cols, call.present)
           series == IF j = 0 THEN <<>>
                     ELSE Listed([r \in 1..call.nrows |->
                            AsCleanText(SourceColumn(entry.possible_cols[j],
                                          call.nrows, call.blanks_in)[r])])
           grows == j # 0 /\ call.index = 0 /\ call.nrows > 0
           index_after == IF grows THEN call.nrows ELSE call.index
       IN  call' =
             [call EXCEPT
                !.at = call.at + 1,
                !.index = index_after,
                !.made = call.made \cup {entry.target},
                !.data =
                  [c \in CanonicalColumns |->
                     IF c = entry.target
                     THEN IF j = 0 THEN Filled(call.index, EmptyString)
                          ELSE series
                     ELSE IF c \in call.made /\ grows
                          THEN Filled(call.nrows, BlankCell)
                          ELSE call.data[c]]]
    /\ UNCHANGED <<pvars, dd, ld, orch>>

\* The row filter after the loop: only the rows whose customer code is a
\* text stay (not "", not a header text, not missing); kept holds them.
ReconcileFilter ==
    /\ call.fn = "columns" /\ call.pc = "mapping"
    /\ call.at = Len(column_mapping)
    /\ call' =
         [call EXCEPT
            !.pc = "filtered",
            !.kept = {r \in 1..call.index : call.data["code"][r].v = "text"}]
    /\ UNCHANGED <<pvars, dd, ld, orch>>

NextColumns ==
    \/ ReconcileColumn
    \/ ReconcileFilter

SpecColumns == InitColumns /\ [][NextColumns]_vars

-----------------------------------------------------------------------------
(* Properties of the column reconciler.                                    *)

\* C22: after the loop the frame has exactly the canonical columns; a
\* canonical column without candidate in the source holds the empty string
\* in every row, and a column with candidates holds the cleaned text of
\* the first candidate present.
C22_MissingColumnFilledEmpty ==
    (call.fn = "columns" /\ call.pc = "mapping"
       /\ call.at = Len(column_mapping))
      => /\ call.made = CanonicalColumns
         /\ \A i \in 1..Len(column_mapping) :
               LET entry == column_mapping[i]
                   j == FirstPresent(entry.possible_cols, call.present)
                   column == call.data[entry.target]
               IN  /\ Len(column) = call.index
                   /\ IF j = 0
                      THEN \A r \in 1..Len(column) : column[r] = EmptyString
                      ELSE \A r \in 1..Len(column) :
                              column[r]
                                = AsCleanText(
                                    SourceColumn(entry.possible_cols[j],
                                       call.nrows, call.blanks_in)[r])

-----------------------------------------------------------------------------
(* create_indexes_batch on sales_main, as convert_sales_data calls it      *)
(* after the load.  The table has the columns of the frame that was        *)
(* loaded (or is missing, after the load of an empty frame); the load      *)
(* dropped the table and with it the indexes it had.  The batch is run a   *)
(* second time to compare its effect with that of one run.                 *)

\* doc_no is 單據編號, customer 客戶名稱, address 送貨地址, phone 聯絡電話,
\* remark 備註, customer_code 客戶代碼
sales_indexes ==
    <<[column |-> "doc_no", index_name |-> "idx_sales_main_doc_no"],
      [column |-> "customer", index_name |-> "idx_sales_main_customer"],
      [column |-> "address", index_name |-> "idx_sales_main_address"],
      [column |-> "phone", index_name |-> "idx_sales_main_phone"],
      [column |-> "remark", index_name |-> "idx_sales_main_remark"],
      [column |-> "customer_code",
       index_name |-> "idx_sales_main_customer_code"]>>

IndexedColumns == {sales_indexes[i].column : i \in 1..Len(sales_indexes)}

\* CREATE INDEX IF NOT EXISTS index_name ON table(column): raises when the
\* table or the column does not exist; does nothing when an index of that
\* name exists; otherwise adds the index.
CreateIndexIfNotExists(indexes, has_table, table_columns, entry) ==
    IF ~has_table THEN [raised |-> TRUE, indexes |-> indexes]
    ELSE IF \E x \in indexes : x.index_name = entry.index_name
    THEN [raised |-> FALSE, indexes |-> indexes]
    ELSE IF entry.column \notin table_columns
    THEN [raised |-> TRUE, indexes |-> indexes]
    ELSE [raised |-> FALSE, indexes |-> indexes \cup {entry}]

IndexCall(has_table, table_columns) ==
    [fn |-> "indexes", pc |-> "loop", run |-> 1, at |-> 0,
     has_table |-> has_table, table_columns |-> table_columns,
     indexes |-> {}, printed |-> <<>>, after_first |-> {}]

InitIndexes ==
    /\ InitStore("free") /\ ~tableExists
    /\ ld = NoLoad /\ orch = NoOrch
    /\ \E has_table \in BOOLEAN :
          \E table_columns \in SUBSET IndexedColumns :
             /\ ~has_table => table_columns = {}
             /\ call = IndexCall(has_table, table_columns)

\* Variant: the try encloses the loop, so the first failure ends the batch.
IndexCreate_StopsAtFailure ==
    /\ call.fn = "indexes" /\ call.pc = "loop"
    /\ call.at < Len(sales_indexes)
    /\ LET entry == sales_indexes[call.at + 1]
           res == CreateIndexIfNotExists(call.indexes, call.has_table,
                                         call.table_columns, entry)
       IN  call' =
             [call EXCEPT
                !.at = IF res.raised THEN Len(sales_indexes)
                       ELSE call.at + 1,
                !.indexes = res.indexes,
                !.printed = IF res.raised
                            THEN Append(call.printed, entry.index_name)
                            ELSE call.printed]
    /\ UNCHANGED <<pvars, dd, ld, orch>>

\* One turn of `for column, index_name in index_configs`: the statement in
\* its own try; a failure is printed and the loop goes on.
IndexCreate ==
    /\ call.fn = "indexes" /\ call.pc = "loop"
    /\ call.at < Len(sales_indexes)
    /\ LET entry == sales_indexes[call.at + 1]
           res == CreateIndexIfNotExists(call.indexes, call.has_table,
                                         call.table_columns, entry)
       IN  call' =
             [call EXCEPT
                !.at = call.at + 1,
                !.indexes = res.indexes,
                !.printed = IF res.raised
                            THEN Append(call.printed, entry.index_name)
                            ELSE call.printed]
    /\ UNCHANGED <<pvars, dd, ld, orch>>

\* The batch returns; after the first run it is called once more on the
\* same table.
IndexBatchReturn ==
    /\ call.fn = "indexes" /\ call.pc = "loop"
    /\ call.at = Len(sales_indexes)
    /\ call' =
         IF call.run = 1
         THEN [call EXCEPT !.run = 2, !.at = 0, !.printed = <<>>,
                           !.after_first = call.indexes]
         ELSE [call EXCEPT !.pc = "done"]
    /\ UNCHANGED <<pvars, dd, ld, orch>>

NextIndexes ==
    \/ IndexCreate
    \/ IndexBatchReturn

SpecIndexes == InitIndexes /\ [][NextIndexes]_vars

\* C23: when a run of the batch has gone through its list, the indexes of
\* the table are exactly the listed ones whose column the table has, every
\* listed index with an absent column has been reported and none other,
\* the loop has reached the end of the list, and after the second run the
\* indexes are those left by the first.
C23_IndexesSelectiveAndIdempotent ==
    (call.fn = "indexes" /\ call.at = Len(sales_indexes))
      => /\ call.indexes
              = {sales_indexes[i] : i \in
                   {k \in 1..Len(sales_indexes) :
                       sales_indexes[k].column \in call.table_columns}}
         /\ {call.printed[i] : i \in 1..Len(call.printed)}
              = {sales_indexes[k].index_name : k \in
                   {m \in 1..Len(sales_indexes) :
                       sales_indexes[m].column \notin call.table_columns}}
         /\ (call.run = 2 => call.indexes = call.after_first)

\* C23 witness: the table lacks the address column, the third of the list;
\* both runs are over, the indexes after it in the list were built, and the
\* second run left the same four indexes as the first.
C23_Witness ==
    /\ call.fn = "indexes" /\ call.pc = "done" /\ call.run = 2
    /\ call.table_columns = {"doc_no", "customer", "phone", "remark"}
    /\ call.printed
         = <<"idx_sales_main_address", "idx_sales_main_customer_code">>
    /\ call.indexes = call.after_first
    /\ sales_indexes[4] \in call.indexes
    /\ sales_indexes[5] \in call.indexes
    /\ Cardinality(call.indexes) = 4

=============================================================================
